---- MODULE Spec2Model ----
(***************************************************************************)
(* gnssmapper/observations.py: observe, _get_satellites, rays,             *)
(* filter_elevation, elevation and to_crs_3d.                              *)
(*                                                                         *)
(* The module has no state of its own: every function is a batch           *)
(* transform.  A state of the model is one call: the function called, its  *)
(* arguments, and what the call gave back (a value or the error raised,    *)
(* with the log of the steps that ran).                                    *)
(*                                                                         *)
(* Coordinates are integers on a lattice: receivers sit on the coordinate  *)
(* axes of the geocentric frame (latitude and longitude multiples of 90    *)
(* degrees), sight lines have integer length and direction cosines that    *)
(* are multiples of 1/5.  Elevations keep what double precision makes of   *)
(* them: the residue of cos and sin where the exact value is 0, and the    *)
(* side of a bound on which an arcsine falls.                              *)
(***************************************************************************)
EXTENDS Integers, Sequences, FiniteSets, TLC

VARIABLES op, args, ret

vars == <<op, args, ret>>

(***************************************************************************)
(* Bounds of the model.                                                    *)
(***************************************************************************)
MaxGeoms == 2
MaxLines == 2
MaxElevLines == 1
MaxPairs == 2
MaxPoints == 2

(***************************************************************************)
(* Vectors and sequences.                                                  *)
(***************************************************************************)
Abs(n) == IF n < 0 THEN -n ELSE n

Dot(u, v) == u[1] * v[1] + u[2] * v[2] + u[3] * v[3]

Minus(u, v) == <<u[1] - v[1], u[2] - v[2], u[3] - v[3]>>

Plus(u, v) == <<u[1] + v[1], u[2] + v[2], u[3] + v[3]>>

\* The n with n * n = sq (the square root on the lattice, where it is exact).
Sqrt(sq) == CHOOSE n \in 0..sq : n * n = sq

SeqsUpTo(S, n) == UNION {[1..k -> S] : k \in 0..n}

\* A pandas RangeIndex of n labels: 0, 1, ..., n-1.
RangeIndex(n) == [i \in 1..n |-> i - 1]

(***************************************************************************)
(* Results: a call either gives a value or raises.                         *)
(***************************************************************************)
Ok(v) == [err |-> "none", val |-> v]

Raise(e) == [err |-> e, val |-> "none"]

(***************************************************************************)
(* Configuration (gnssmapper.common.constants) and the coordinate          *)
(* reference systems.  "cart" is geocentric Cartesian (x, y, z); "geo" is  *)
(* geographic (latitude, longitude, height), in the authority's axis       *)
(* order; "none" is a missing or unrecognised CRS.                         *)
(***************************************************************************)
epsg_satellites == "cart"

epsg_wgs84_cart == "cart"

epsg_wgs84 == "geo"

supported_constellations == {"G", "R", "E", "C"}

(***************************************************************************)
(* Angles.  The code's angles are double-precision degrees.  An angle is   *)
(* held here on a scale that keeps every comparison of the code between an *)
(* elevation and a bound given in hundredths of a degree: the even number  *)
(* 2 * c is exactly c hundredths of a degree, the odd number 2 * c + 1 is  *)
(* a value strictly between c and c + 1 hundredths.                        *)
(***************************************************************************)
Deg(hundredths) == 2 * hundredths

minimum_elevation == Deg(0)

maximum_elevation == Deg(9000)

ray_length == 4

\* Radius of the reference surface, in lattice units.
EarthRadius == 3

\* cm.check.crs: fails unless the CRS is valid.
check_crs(crs) == crs \in {"cart", "geo"}

(***************************************************************************)
(* pyproj.Transformer.from_crs(source, target).transform on one vertex.    *)
(* cos and sin of multiples of 90 degrees.                                 *)
(***************************************************************************)
CosDeg(d) == CASE d = 0 -> 1 [] d = 90 -> 0 [] d = -90 -> 0 [] d = 180 -> -1

SinDeg(d) == CASE d = 0 -> 0 [] d = 90 -> 1 [] d = -90 -> -1 [] d = 180 -> 0

\* atan2(y, x) in degrees, for a direction along an axis.
Atan2Deg(y, x) ==
    CASE y = 0 /\ x >= 0 -> 0
      [] y = 0 /\ x < 0 -> 180
      [] y > 0 /\ x = 0 -> 90
      [] y < 0 /\ x = 0 -> -90

\* geographic (lat, lon, h) -> geocentric (x, y, z)
GeoToCart(p) ==
    LET r == EarthRadius + p[3]
    IN  <<r * CosDeg(p[1]) * CosDeg(p[2]),
          r * CosDeg(p[1]) * SinDeg(p[2]),
          r * SinDeg(p[1])>>

\* geocentric (x, y, z) -> geographic (lat, lon, h)
CartToGeo(p) ==
    LET horiz == Abs(p[1]) + Abs(p[2])
    IN  <<Atan2Deg(p[3], horiz),
          Atan2Deg(p[2], p[1]),
          horiz + Abs(p[3]) - EarthRadius>>

Transform(source, target, p) ==
    CASE source = target -> p
      [] source = "geo" /\ target = "cart" -> GeoToCart(p)
      [] source = "cart" /\ target = "geo" -> CartToGeo(p)

\* shapely.ops.transform(func, geom): func on every vertex, all three
\* coordinates handed over and taken back.
transform(source, target, g) == [i \in 1..Len(g) |-> Transform(source, target, g[i])]

(***************************************************************************)
(* to_crs_3d.  A collection is a GeoSeries or a GeoDataFrame:              *)
(*   kind  "series" or "frame"                                             *)
(*   crs   its CRS                                                         *)
(*   index its row labels                                                  *)
(*   geoms its geometries, each a sequence of vertices, or None            *)
(*   data  the other columns, row by row (frames)                          *)
(***************************************************************************)
\* A missing geometry.
None == <<>>

transform_geoseries(geometry, target) ==
    IF ~check_crs(target) \/ ~check_crs(geometry.crs)
    THEN Raise("crs")
    ELSE IF \E i \in 1..Len(geometry.geoms) : geometry.geoms[i] = None
    THEN Raise("geometry")
    ELSE Ok([kind |-> "series", crs |-> target,
             index |-> RangeIndex(Len(geometry.geoms)),
             geoms |-> [i \in 1..Len(geometry.geoms) |->
                          transform(geometry.crs, target, geometry.geoms[i])],
             data |-> <<>>])

\* df.set_geometry(col, crs): the column is assigned as a Series, so pandas
\* aligns it with the frame on the row labels; a label the Series does not
\* have gets a missing geometry.
set_geometry(df, col, crs) ==
    [df EXCEPT !.crs = crs,
               !.geoms = [i \in 1..Len(df.index) |->
                            IF df.index[i] \in 0..(Len(col.geoms) - 1)
                            THEN col.geoms[df.index[i] + 1]
                            ELSE None]]

to_crs_3d(df, target) ==
    LET t == transform_geoseries(df, target)
    IN  IF t.err # "none" THEN t
        ELSE IF df.kind = "frame" THEN Ok(set_geometry(df, t.val, target))
        ELSE t

(***************************************************************************)
(* elevation.                                                              *)
(***************************************************************************)
\* cm.check.rays: every geometry is a line of two vertices.
check_rays(lines) == \A i \in 1..Len(lines.geoms) : Len(lines.geoms[i]) = 2

\* A double of the form w + e * 6.123e-17, the second term being the
\* residue numpy's cos and sin leave where the exact value is 0.
Float(w, e) == [w |-> w, e |-> e]

\* The product of two such doubles; the product of two residues is not
\* formed by any receiver on an axis.
Product(a, b) == Float(a.w * b.w, a.w * b.e + a.e * b.w)

\* np.cos(np.radians(d)): cos(radians(90)) is 6.123e-17, not 0.
np_cos(d) ==
    CASE d = 0 -> Float(1, 0) [] d = 90 -> Float(0, 1)
      [] d = -90 -> Float(0, 1) [] d = 180 -> Float(-1, 0)

\* np.sin(np.radians(d)): sin(radians(180)) is 1.225e-16, not 0.
np_sin(d) ==
    CASE d = 0 -> Float(0, 0) [] d = 90 -> Float(1, 0)
      [] d = -90 -> Float(-1, 0) [] d = 180 -> Float(0, 2)

Sign(n) == IF n > 0 THEN 1 ELSE IF n < 0 THEN -1 ELSE 0

\* np.degrees(np.arcsin(inner)) of inner = (w + e * 6.123e-17) / 5, on the
\* angle scale: arcsin(0.6) is 36.8698..., between 36.86 and 36.87; arcsin(1)
\* is exactly 90; where w is 0 the residue alone is left, a few 1e-15 of a
\* degree of its sign.
ArcsinDeg(inner) ==
    IF inner.w = 0 THEN Sign(inner.e)
    ELSE Sign(inner.w) *
         (CASE Abs(inner.w) = 1 -> Deg(1153) + 1
            [] Abs(inner.w) = 2 -> Deg(2357) + 1
            [] Abs(inner.w) = 3 -> Deg(3686) + 1
            [] Abs(inner.w) = 4 -> Deg(5313) + 1
            [] Abs(inner.w) = 5 -> Deg(9000))

\* delta / np.linalg.norm(delta), in fifths.
unit_vector(delta) ==
    LET norm == Sqrt(Dot(delta, delta))
    IN  [k \in 1..3 |-> (5 * delta[k]) \div norm]

\* The up vector with the two geographic columns read the other way round.
up_vector_swapped(receiver_lla) ==
    LET lat == receiver_lla[2]
        long_ == receiver_lla[1]
    IN  <<Product(np_cos(long_), np_cos(lat)), Product(np_sin(long_), np_cos(lat)),
          np_sin(lat)>>

\* The unit vector orthogonal to the ellipsoid at the receiver: column 0 of
\* the geographic coordinates is read as latitude, column 1 as longitude.
up_vector(receiver_lla) ==
    LET lat == receiver_lla[1]
        long_ == receiver_lla[2]
    IN  <<Product(np_cos(long_), np_cos(lat)), Product(np_sin(long_), np_cos(lat)),
          np_sin(lat)>>

\* One line's elevation, from its geocentric vertices and the geographic
\* coordinates of its first vertex.
elevation_of(ecef_line, receiver_lla) ==
    LET delta == unit_vector(Minus(ecef_line[2], ecef_line[1]))
        up == up_vector(receiver_lla)
        inner == Float(delta[1] * up[1].w + delta[2] * up[2].w + delta[3] * up[3].w,
                       delta[1] * up[1].e + delta[2] * up[2].e + delta[3] * up[3].e)
    IN  ArcsinDeg(inner)

\* lla = to_crs_3d(lines, epsg_wgs84), of which only each line's first vertex
\* is read; np.stack of no arrays raises.
elevation(lines) ==
    IF ~check_rays(lines)
    THEN [err |-> "rays", val |-> "none", log |-> <<"check.rays">>]
    ELSE LET ecef == to_crs_3d(lines, epsg_wgs84_cart)
         IN  IF ecef.err # "none"
             THEN [err |-> ecef.err, val |-> "none",
                   log |-> <<"check.rays", "to_crs_3d">>]
             ELSE IF Len(lines.geoms) = 0
             THEN [err |-> "stack", val |-> "none",
                   log |-> <<"check.rays", "to_crs_3d", "stack">>]
             ELSE [err |-> "none",
                   val |-> [i \in 1..Len(lines.geoms) |->
                              elevation_of(ecef.val.geoms[i],
                                           Transform(lines.crs, epsg_wgs84,
                                                     lines.geoms[i][1]))],
                   log |-> <<"check.rays", "to_crs_3d", "stack", "arcsin">>]

(***************************************************************************)
(* filter_elevation.                                                       *)
(***************************************************************************)
\* observations.geometry: the geometry column as a GeoSeries.
geometry(df) == [df EXCEPT !.kind = "series", !.data = <<>>]

\* The positions a boolean mask keeps, in order.
Kept(mask) ==
    LET S == {i \in 1..Len(mask) : mask[i]}
    IN  [k \in 1..Cardinality(S) |->
           CHOOSE i \in S : Cardinality({j \in S : j < i}) = k - 1]

\* df.loc[mask, :].copy()
loc(df, mask) ==
    LET at == Kept(mask)
    IN  [df EXCEPT !.index = [k \in 1..Len(at) |-> df.index[at[k]]],
                   !.geoms = [k \in 1..Len(at) |-> df.geoms[at[k]]],
                   !.data = [k \in 1..Len(at) |-> df.data[at[k]]]]

\* Python's lb <= e <= ub on an array e is (lb <= e) and (e <= ub): the
\* truth value of the first array is taken, which numpy refuses for an array
\* of more than one element; a false first array is itself the result.
chained_comparison(lb, e, ub) ==
    LET first == [i \in 1..Len(e) |-> lb <= e[i]]
        second == [i \in 1..Len(e) |-> e[i] <= ub]
    IN  IF Len(e) > 1 THEN Raise("ambiguous")
        ELSE IF Len(e) = 1 /\ first[1] THEN Ok(second)
        ELSE Ok(first)

\* A bounds test that leaves out lb <= ub.
valid_bounds_range_only(lb, ub) == 0 <= lb /\ ub <= Deg(9000)

\* 0 <= lb <= ub <= 90
valid_bounds(lb, ub) == 0 <= lb /\ lb <= ub /\ ub <= Deg(9000)

filter_elevation(observations, lb, ub) ==
    IF ~valid_bounds(lb, ub)
    THEN [err |-> "bounds", val |-> "none", log |-> <<"bounds">>]
    ELSE LET e == elevation(geometry(observations))
         IN  IF e.err # "none"
             THEN [err |-> e.err, val |-> "none", log |-> <<"bounds">> \o e.log]
             ELSE LET mask == chained_comparison(lb, e.val, ub)
                  IN  IF mask.err # "none"
                      THEN [err |-> mask.err, val |-> "none",
                            log |-> <<"bounds">> \o e.log \o <<"compare">>]
                      ELSE [err |-> "none", val |-> loc(observations, mask.val),
                            log |-> <<"bounds">> \o e.log \o <<"compare", "loc">>]

(***************************************************************************)
(* rays.                                                                   *)
(***************************************************************************)
\* pygeos.linear.line_interpolate_point on a line of two vertices: GEOS
\* measures the distance along the line in the XY plane and interpolates Z
\* by the same fraction; beyond the line's end it gives the end.
line_interpolate_point(line, distance) ==
    LET p0 == line[1]
        p1 == line[2]
        d == Minus(p1, p0)
        segLen == Sqrt(d[1] * d[1] + d[2] * d[2])
    IN  IF distance <= 0 THEN p0
        ELSE IF segLen > distance
        THEN <<p0[1] + (d[1] * distance) \div segLen,
               p0[2] + (d[2] * distance) \div segLen,
               p0[3] + (d[3] * distance) \div segLen>>
        ELSE p1

Min(a, b) == IF a < b THEN a ELSE b

\* zip pairs the lists up to the shorter; pygeos.creation.linestrings of no
\* coordinates raises.
rays(receivers, sats) ==
    LET n == Min(Len(receivers), Len(sats))
    IN  IF n = 0 THEN Raise("linestrings")
        ELSE Ok([i \in 1..n |->
                   <<receivers[i],
                     line_interpolate_point(<<receivers[i], sats[i]>>, ray_length)>>])

(***************************************************************************)
(* The collaborators of observe.  An svid is a constellation letter and a  *)
(* number ("G01" is G, 1); a missing svid has the letter "nan", which is   *)
(* what .str[0] gives for it.                                              *)
(***************************************************************************)
Svid(c, n) == [c |-> c, n |-> n]

NaN == Svid("nan", 0)

\* svid.str[0]
str0(svid) == svid.c

\* GPS time runs ahead of UTC by the leap seconds.
LeapSeconds == 18

\* cm.time.utc_to_gps
utc_to_gps(time) == time + LeapSeconds

\* cm.time.gps_to_utc
gps_to_utc(gps_time) == gps_time - LeapSeconds

\* st.SatelliteData().name_satellites: the satellites in orbit at an epoch,
\* whatever their constellation.
name_satellites(gps_time) ==
    CASE gps_time = utc_to_gps(1) ->
           <<Svid("G", 1), Svid("G", 2), Svid("R", 3), Svid("X", 9)>>
      [] gps_time = utc_to_gps(2) -> <<Svid("G", 1), Svid("R", 3)>>

\* st.SatelliteData().locate_satellites: geocentric position of a satellite
\* at an epoch, here as its offset from the North Pole.
locate_satellites(svid, gps_time) ==
    CASE gps_time = utc_to_gps(1) /\ svid = Svid("G", 1) -> <<8, 0, 6 + EarthRadius>>
      [] gps_time = utc_to_gps(1) /\ svid = Svid("G", 2) -> <<0, 0, 10 + EarthRadius>>
      [] gps_time = utc_to_gps(1) /\ svid = Svid("R", 3) -> <<8, 0, EarthRadius - 6>>
      [] gps_time = utc_to_gps(1) /\ svid = Svid("X", 9) -> <<0, 8, 6 + EarthRadius>>
      [] gps_time = utc_to_gps(2) /\ svid = Svid("G", 1) -> <<8, 0, EarthRadius - 6>>
      [] gps_time = utc_to_gps(2) /\ svid = Svid("R", 3) -> <<8, 0, EarthRadius>>

\* cm.check.constellations(constellations, supported_constellations)
check_constellations(constellations, supported) == constellations \subseteq supported

RECURSIVE Concat(_)
Concat(ss) == IF ss = <<>> THEN <<>> ELSE Head(ss) \o Concat(Tail(ss))

(***************************************************************************)
(* _get_satellites: for every row of points, the satellites named at the   *)
(* row's time whose constellation is in the set, with their positions.     *)
(* Its frame has the columns gps_time, svid, sv_x, sv_y, sv_z (here sv)    *)
(* and time.                                                               *)
(***************************************************************************)
get_satellites(points, constellations) ==
    Concat([i \in 1..Len(points.data) |->
              LET gps_time == utc_to_gps(points.data[i].time)
                  svids == SelectSeq(name_satellites(gps_time),
                                     LAMBDA sv : str0(sv) \in constellations)
              IN  [k \in 1..Len(svids) |->
                     [gps_time |-> gps_time, svid |-> svids[k],
                      sv |-> locate_satellites(svids[k], gps_time),
                      time |-> gps_to_utc(gps_time)]]])

\* The columns of the satellite frame once time and svid are its index.
SatColumns == {"gps_time", "sv_x", "sv_y", "sv_z"}

\* The columns of the receiver frame once time and svid are its index and
\* x, y, z are assigned.
ReceiverColumns(receiver) ==
    (receiver.columns \ {"time", "svid"}) \cup {"geometry", "x", "y", "z"}

(***************************************************************************)
(* receiver.merge(sats) with no keys given: pandas joins on the columns    *)
(* the two frames have in common and never on the index, which holds time  *)
(* and svid in both.  With no common column it raises MergeError.  With    *)
(* one (a column of points named gps_time) the result is the inner join on *)
(* it, the receiver rows in order, each with every satellite row of its    *)
(* gps_time; the result has a fresh index and neither time nor svid.       *)
(***************************************************************************)
merge(receiver, sats) ==
    LET on == ReceiverColumns(receiver) \cap SatColumns
    IN  IF on = {} THEN Raise("merge")
        ELSE Ok(Concat([i \in 1..Len(receiver.data) |->
                   LET mine == SelectSeq(sats,
                                  LAMBDA s : s.gps_time = receiver.data[i].gps_time)
                   IN  [k \in 1..Len(mine) |->
                          [row |-> receiver.data[i].row,
                           gps_time |-> mine[k].gps_time,
                           r |-> receiver.geoms[i][1], s |-> mine[k].sv]]]))

(***************************************************************************)
(* observe.  The environment of a call: whether points meets the           *)
(* receiverpoints contract, whether the assembled frame meets the          *)
(* observations contract.                                                  *)
(* The result carries the log of the steps that ran and the constellation  *)
(* set handed to the satellite lookup (empty when the call never got       *)
(* there).                                                                 *)
(***************************************************************************)
Failed(e, log, used) == [err |-> e, val |-> "none", log |-> log, used |-> used]

\* The preliminaries with the verdict of the receiverpoints check ignored.
preliminaries_unchecked(points, constellations, env) ==
    LET measured_constellations ==
            {str0(points.data[i].svid) : i \in 1..Len(points.data)}
        log1 == <<"check.receiverpoints">>
        log2 == log1 \o <<"check.constellations">>
        log3 == log2 \o <<"infer">>
    IN  IF ~check_constellations(constellations, supported_constellations)
        THEN Failed("constellations", log2, {})
        ELSE IF constellations = {} /\ measured_constellations = {}
        THEN Failed("inference", log3, {})
        ELSE [err |-> "none", val |-> "none", log |-> log3,
              used |-> IF constellations = {} THEN measured_constellations
                       ELSE constellations]

\* The preliminaries of observe: the two checks, then the constellation set
\* to use, the one supplied or else the one measured.
preliminaries(points, constellations, env) ==
    LET measured_constellations ==
            {str0(points.data[i].svid) : i \in 1..Len(points.data)}
        log1 == <<"check.receiverpoints">>
        log2 == log1 \o <<"check.constellations">>
        log3 == log2 \o <<"infer">>
    IN  IF ~env.receiverpoints_ok THEN Failed("receiverpoints", log1, {})
        ELSE IF ~check_constellations(constellations, supported_constellations)
        THEN Failed("constellations", log2, {})
        ELSE IF constellations = {} /\ measured_constellations = {}
        THEN Failed("inference", log3, {})
        ELSE [err |-> "none", val |-> "none", log |-> log3,
              used |-> IF constellations = {} THEN measured_constellations
                       ELSE constellations]

observe(points, constellations, env) ==
    LET pre == preliminaries(points, constellations, env)
        used == pre.used
        sats == get_satellites(points, used)
        receiver == to_crs_3d(points, epsg_satellites)
        merged == merge(receiver.val, sats)
        obs == merged.val
        lines == rays([i \in 1..Len(obs) |-> obs[i].r],
                      [i \in 1..Len(obs) |-> obs[i].s])
        frame == [kind |-> "frame", crs |-> epsg_satellites,
                  index |-> RangeIndex(Len(obs)), geoms |-> lines.val,
                  columns |-> (ReceiverColumns(receiver.val) \cup SatColumns)
                              \ {"x", "y", "z", "sv_x", "sv_y", "sv_z"},
                  data |-> [i \in 1..Len(obs) |->
                              [row |-> obs[i].row,
                               gps_time |-> obs[i].gps_time]]]
        filtered == filter_elevation(frame, minimum_elevation, maximum_elevation)
        log4 == pre.log \o <<"name_satellites", "locate_satellites">>
        log5 == log4 \o <<"to_crs_3d">>
        log6 == log5 \o <<"merge">>
        log7 == log6 \o <<"rays">>
        log8 == log7 \o <<"check.observations">>
        log9 == log8 \o <<"filter_elevation">>
    IN  IF pre.err # "none" THEN pre
        ELSE IF receiver.err # "none" THEN Failed(receiver.err, log5, used)
        ELSE IF merged.err # "none" THEN Failed(merged.err, log6, used)
        ELSE IF lines.err # "none" THEN Failed(lines.err, log7, used)
        ELSE IF ~env.observations_ok THEN Failed("observations", log8, used)
        ELSE IF filtered.err # "none"
        THEN Failed(filtered.err, log9 \o filtered.log, used)
        ELSE [err |-> "none", val |-> filtered.val,
              log |-> log9 \o filtered.log, used |-> used]

(***************************************************************************)
(* One call per state.                                                     *)
(***************************************************************************)
\* Heights above the reference surface.
Heights == {0, 1}

\* Positions on the axes, by CRS.
CartPoints ==
    {<<s * (EarthRadius + h), 0, 0>> : s \in {-1, 1}, h \in Heights}
    \cup {<<0, s * (EarthRadius + h), 0>> : s \in {-1, 1}, h \in Heights}
    \cup {<<0, 0, s * (EarthRadius + h)>> : s \in {-1, 1}, h \in Heights}

GeoPoints ==
    {<<0, lon, h>> : lon \in {-90, 0, 90, 180}, h \in Heights}
    \cup {<<lat, 0, h>> : lat \in {-90, 90}, h \in Heights}

PointsIn(crs) == IF crs = "geo" THEN GeoPoints ELSE CartPoints

\* Row labels a frame of n rows may carry: the default, reversed, shifted.
IndexChoices(n) ==
    {RangeIndex(n), [i \in 1..n |-> n - i], [i \in 1..n |-> i + 4]}

Init ==
    /\ op = "none"
    /\ args = <<>>
    /\ ret = <<>>

\* to_crs_3d(df, target), then to_crs_3d of the result back to df's CRS.
CallToCrs3d ==
    /\ op = "none"
    /\ \E kind \in {"series", "frame"}, crs \in {"cart", "geo", "none"},
          target \in {"cart", "geo", "none"}, n \in 0..MaxGeoms :
      \E pts \in [1..n -> PointsIn(crs)],
         index \in IF kind = "frame" THEN IndexChoices(n) ELSE {RangeIndex(n)} :
        LET df == [kind |-> kind, crs |-> crs, index |-> index,
                   geoms |-> [i \in 1..n |-> <<pts[i]>>], data |-> <<>>]
            there == to_crs_3d(df, target)
        IN  /\ op' = "to_crs_3d"
            /\ args' = [df |-> df, target |-> target]
            /\ ret' = [there |-> there,
                       back |-> IF there.err = "none"
                                THEN to_crs_3d(there.val, crs)
                                ELSE there,
                       df |-> df]

\* Sight lines from the North Pole, by elevation: 36.8699, 90, -36.8699,
\* 3.5e-15, -3.5e-15 and 53.1301 degrees; and a geometry that is no line.
NorthPole == <<0, 0, EarthRadius>>

FilterGeoms ==
    {<<NorthPole, Plus(NorthPole, d)>> :
        d \in {<<8, 0, 6>>, <<0, 0, 10>>, <<8, 0, -6>>, <<8, 0, 0>>, <<-5, 0, 0>>,
               <<0, 3, 4>>}}
    \cup {<<NorthPole>>}

\* Elevation bounds: -5, 0, 36.87, 45, 90 and 95 degrees.
BoundChoices == {Deg(-500), Deg(0), Deg(3687), Deg(4500), Deg(9000), Deg(9500)}

CallFilterElevation ==
    /\ op = "none"
    /\ \E n \in 0..MaxLines, crs \in {"cart", "none"},
          lb \in BoundChoices, ub \in BoundChoices :
      \E geoms \in [1..n -> FilterGeoms] :
        LET observations ==
                [kind |-> "frame", crs |-> crs, index |-> RangeIndex(n),
                 geoms |-> geoms, data |-> [i \in 1..n |-> [row |-> i]]]
        IN  /\ op' = "filter_elevation"
            /\ args' = [observations |-> observations, lb |-> lb, ub |-> ub]
            /\ ret' = filter_elevation(observations, lb, ub)

\* Receivers on the six axes; sight lines of length 5 in every lattice
\* direction.
AxisReceivers ==
    {<<s * EarthRadius, 0, 0>> : s \in {-1, 1}}
    \cup {<<0, s * EarthRadius, 0>> : s \in {-1, 1}}
    \cup {<<0, 0, s * EarthRadius>> : s \in {-1, 1}}

UnitOffsets ==
    {d \in (-5..5) \X (-5..5) \X (-5..5) : Dot(d, d) = 25}

ElevLines == {<<r, Plus(r, d)>> : r \in AxisReceivers, d \in UnitOffsets}

\* In geographic coordinates: from a point on the surface to a point one
\* unit above it, over any of the six axes.
GeoElevLines ==
    {<<r, s>> : r \in {g \in GeoPoints : g[3] = 0},
                s \in {g \in GeoPoints : g[3] = 1}}

ElevLinesIn(crs) == IF crs = "geo" THEN GeoElevLines ELSE ElevLines

CallElevation ==
    /\ op = "none"
    /\ \E n \in 0..MaxElevLines, crs \in {"cart", "geo", "none"} :
      \E geoms \in [1..n -> ElevLinesIn(crs)] :
        LET lines == [kind |-> "series", crs |-> crs, index |-> RangeIndex(n),
                      geoms |-> geoms, data |-> <<>>]
        IN  /\ op' = "elevation"
            /\ args' = [lines |-> lines]
            /\ ret' = elevation(lines)

RayReceivers == {<<0, 0, 0>>, <<0, 0, 2>>}

RaySats ==
    {<<8, 0, 0>>, <<8, 0, 6>>, <<0, 8, -6>>, <<-8, 0, 6>>, <<4, 0, 0>>,
     <<4, 0, 3>>, <<0, 3, 4>>, <<0, 0, 10>>, <<0, 0, -5>>, <<2, 0, 0>>}

CallRays ==
    /\ op = "none"
    /\ \E receivers \in SeqsUpTo(RayReceivers, MaxPairs),
          sats \in SeqsUpTo(RaySats, MaxPairs) :
        /\ op' = "rays"
        /\ args' = [receivers |-> receivers, sats |-> sats]
        /\ ret' = rays(receivers, sats)

\* Receiver points at the North Pole, in the CRS of the frame.
ReceiverAt(crs) == IF crs = "geo" THEN <<90, 0, 0>> ELSE NorthPole

Times == {1, 2}

\* What a receiver may report: a satellite it tracked, or nothing.
MeasuredSvids == {Svid("G", 1), Svid("R", 3), Svid("X", 9), NaN}

ConstellationChoices == {{}, {"G"}, {"G", "R"}, {"X"}}

\* The other columns of points: its row tag alone, or also the GPS time of
\* each row under the name gps_time.
PassThroughChoices == {{}, {"gps_time"}}

CallObserve ==
    /\ op = "none"
    /\ \E n \in 0..MaxPoints, crs \in {"cart", "geo", "none"},
          constellations \in ConstellationChoices,
          passthrough \in PassThroughChoices,
          env \in [receiverpoints_ok : BOOLEAN, observations_ok : BOOLEAN] :
      \E times \in [1..n -> Times], svids \in [1..n -> MeasuredSvids] :
        LET points ==
                [kind |-> "frame", crs |-> crs, index |-> RangeIndex(n),
                 geoms |-> [i \in 1..n |-> <<ReceiverAt(crs)>>],
                 columns |-> {"time", "svid", "geometry", "row"} \cup passthrough,
                 data |-> [i \in 1..n |->
                             IF "gps_time" \in passthrough
                             THEN [time |-> times[i], svid |-> svids[i], row |-> i,
                                   gps_time |-> utc_to_gps(times[i])]
                             ELSE [time |-> times[i], svid |-> svids[i],
                                   row |-> i]]]
        IN  /\ op' = "observe"
            /\ args' = [points |-> points, constellations |-> constellations,
                        env |-> env]
            /\ ret' = observe(points, constellations, env)

\* The call is over; the module keeps nothing of it.
Return ==
    /\ op # "none"
    /\ op' = "none"
    /\ args' = <<>>
    /\ ret' = <<>>

Next ==
    \/ CallToCrs3d
    \/ CallElevation
    \/ CallFilterElevation
    \/ CallRays
    \/ CallObserve
    \/ Return

Spec == Init /\ [][Next]_vars

(***************************************************************************)
(* Properties.                                                             *)
(***************************************************************************)
InLog(step) == \E k \in 1..Len(ret.log) : ret.log[k] = step

\* The elevation of a geocentric sight line from a receiver on an axis,
\* from the geometry alone: sin(elevation) is the cosine of the angle
\* between the sight line and the receiver's radius.  In fifths.
SinOfSightLine(line) ==
    LET r == line[1]
        d == Minus(line[2], line[1])
    IN  (5 * Dot(d, r)) \div (Sqrt(Dot(d, d)) * Sqrt(Dot(r, r)))

\* That elevation on the angle scale, exact: a horizontal sight line is at
\* 0 degrees.
GeometricElevation(line) == ArcsinDeg(Float(SinOfSightLine(line), 0))

\* The elevation the code computes for a geocentric line.
ComputedElevation(line) == elevation_of(line, CartToGeo(line[1]))

\* C1: filter_elevation with valid bounds returns exactly the rows whose
\* elevation e satisfies lb <= e <= ub, for observation sets of zero, one
\* or several rows.
C1_FilterReturnsRowsWithinBounds ==
    (/\ op = "filter_elevation"
     /\ 0 <= args.lb /\ args.lb <= args.ub /\ args.ub <= Deg(9000)
     /\ args.observations.crs = "cart"
     /\ \A i \in 1..Len(args.observations.geoms) :
           Len(args.observations.geoms[i]) = 2)
    => /\ ret.err = "none"
       /\ LET within ==
                  {i \in 1..Len(args.observations.geoms) :
                     LET e == ComputedElevation(args.observations.geoms[i])
                     IN  args.lb <= e /\ e <= args.ub}
          IN  /\ Len(ret.val.data) = Cardinality(within)
              /\ {ret.val.data[k].row : k \in 1..Len(ret.val.data)} = within
              /\ \A k \in 1..Len(ret.val.data) :
                    ret.val.geoms[k] = args.observations.geoms[ret.val.data[k].row]

\* C2: filter_elevation with lb < 0, ub > 90 or lb > ub raises on the bounds
\* for any observations, before any elevation is computed, and returns no
\* filtered result.
C2_InvalidBoundsRaiseFirst ==
    (/\ op = "filter_elevation"
     /\ (args.lb < 0 \/ args.ub > Deg(9000) \/ args.lb > args.ub))
    => /\ ret.err = "bounds"
       /\ ret.val = "none"
       /\ ret.log = <<"bounds">>

C2_Witness ==
    /\ op = "filter_elevation"
    /\ 0 <= args.lb /\ args.ub <= Deg(9000) /\ args.lb > args.ub
    /\ \E i \in 1..Len(args.observations.geoms) :
          Len(args.observations.geoms[i]) # 2
    /\ ret.err = "bounds"

\* C3: observe, on receiver points that meet their contract and with a
\* supported constellation set, returns rows that carry time and svid,
\* exactly one per (receiver epoch, satellite) such that the satellite is
\* named at the epoch, is of a constellation in use and is within the
\* elevation bounds, measured at that epoch or not.
C3_ObserveReturnsEveryVisibleSatellite ==
    (/\ op = "observe"
     /\ args.env.receiverpoints_ok /\ args.env.observations_ok
     /\ args.points.crs \in {"cart", "geo"}
     /\ Len(args.points.data) > 0
     /\ args.constellations # {}
     /\ args.constellations \subseteq supported_constellations)
    => LET epochs == {args.points.data[i].time : i \in 1..Len(args.points.data)}
           named(t) == {name_satellites(utc_to_gps(t))[k] :
                          k \in 1..Len(name_satellites(utc_to_gps(t)))}
           visible ==
               {p \in epochs \X UNION {named(t) : t \in epochs} :
                  /\ p[2] \in named(p[1])
                  /\ str0(p[2]) \in args.constellations
                  /\ LET e == GeometricElevation(
                                  <<NorthPole,
                                    locate_satellites(p[2], utc_to_gps(p[1]))>>)
                     IN  minimum_elevation <= e /\ e <= maximum_elevation}
       IN  /\ ret.err = "none"
           /\ \A k \in 1..Len(ret.val.data) :
                 {"time", "svid"} \subseteq DOMAIN ret.val.data[k]
           /\ {<<ret.val.data[k].time, ret.val.data[k].svid>> :
                 k \in 1..Len(ret.val.data)} = visible
           /\ Len(ret.val.data) = Cardinality(visible)

\* C4: observe without a constellations argument on receiver points with no
\* svid values (no rows, or rows whose svid is missing) fails, and the
\* satellite lookup is never called.
C4_NoSvidNoConstellationsFails ==
    (/\ op = "observe"
     /\ args.constellations = {}
     /\ \A i \in 1..Len(args.points.data) : args.points.data[i].svid = NaN)
    => /\ ret.err # "none"
       /\ ~InLog("name_satellites")
       /\ ~InLog("locate_satellites")

\* C5: the constellation set observe hands to the satellite lookup is the
\* set of first characters of the svid values present in the input when no
\* constellations argument is given, and the supplied set unchanged
\* otherwise.
C5_ConstellationsInferredFromSvids ==
    (op = "observe" /\ InLog("name_satellites"))
    => ret.used =
         IF args.constellations = {}
         THEN {args.points.data[i].svid.c :
                 i \in {j \in 1..Len(args.points.data) :
                          args.points.data[j].svid # NaN}}
         ELSE args.constellations

\* C6: the i-th line of rays starts at the i-th receiver R; when S is
\* farther from R than ray_length the line has length ray_length and ends
\* on the segment from R to S; otherwise it is the line from R to S.
C6_RaysTruncatedToRayLength ==
    (op = "rays" /\ ret.err = "none")
    => \A i \in 1..Len(ret.val) :
          LET R == args.receivers[i]
              S == args.sats[i]
              d == Minus(S, R)
              out == Minus(ret.val[i][2], ret.val[i][1])
          IN  /\ ret.val[i][1] = R
              /\ IF Dot(d, d) > ray_length * ray_length
                 THEN /\ Dot(out, out) = ray_length * ray_length
                      /\ \E num \in 0..ray_length, den \in 1..(2 * ray_length) :
                            /\ num <= den
                            /\ \A k \in 1..3 : den * out[k] = num * d[k]
                 ELSE ret.val[i] = <<R, S>>

\* C7 as stated: elevation is degrees(asin(dot(delta, up))), up the local
\* vertical at the line's first point: exactly 90 degrees from the North
\* Pole to a satellite further out on the polar axis, exactly 0 degrees to
\* one in an orthogonal direction, and always within [-90, 90].
C7_ElevationExact ==
    (op = "elevation" /\ args.lines.crs \in {"cart", "geo"})
    => /\ Len(args.lines.geoms) > 0 => ret.err = "none"
       /\ ret.err = "none" =>
            \A i \in 1..Len(args.lines.geoms) :
               LET r == Transform(args.lines.crs, "cart", args.lines.geoms[i][1])
                   s == Transform(args.lines.crs, "cart", args.lines.geoms[i][2])
               IN  /\ ret.val[i] = GeometricElevation(<<r, s>>)
                   /\ Deg(-9000) <= ret.val[i] /\ ret.val[i] <= Deg(9000)
                   /\ (r = NorthPole /\ s[1] = 0 /\ s[2] = 0 /\ s[3] > r[3])
                        => ret.val[i] = Deg(9000)
                   /\ (r = NorthPole /\ s[3] = r[3]) => ret.val[i] = Deg(0)

\* C7, amended: elevation is degrees(asin(dot(delta, up))) to within the
\* rounding of the double-precision cos and sin, less than a hundredth of
\* a degree: exactly 90 degrees from the North Pole to a satellite further
\* out on the polar axis, within that rounding of 0 degrees (above or
\* below) to one in an orthogonal direction, and always within [-90, 90].
C7_ElevationFormula ==
    (op = "elevation" /\ args.lines.crs \in {"cart", "geo"})
    => /\ Len(args.lines.geoms) > 0 => ret.err = "none"
       /\ ret.err = "none" =>
            \A i \in 1..Len(args.lines.geoms) :
               LET r == Transform(args.lines.crs, "cart", args.lines.geoms[i][1])
                   s == Transform(args.lines.crs, "cart", args.lines.geoms[i][2])
               IN  /\ Abs(ret.val[i] - GeometricElevation(<<r, s>>)) <= 1
                   /\ Deg(-9000) <= ret.val[i] /\ ret.val[i] <= Deg(9000)
                   /\ (r = NorthPole /\ s[1] = 0 /\ s[2] = 0 /\ s[3] > r[3])
                        => ret.val[i] = Deg(9000)
                   /\ (r = NorthPole /\ s[3] = r[3]) => Abs(ret.val[i]) <= 1

\* A horizontal sight line from the North Pole whose computed elevation is
\* not 0.
C7_Witness ==
    /\ op = "elevation"
    /\ ret.err = "none"
    /\ \E i \in 1..Len(args.lines.geoms) :
          /\ args.lines.geoms[i] = <<NorthPole, Plus(NorthPole, <<-5, 0, 0>>)>>
          /\ ret.val[i] = -1

\* C8: to_crs_3d from a valid CRS A to a valid CRS B and back gives the
\* original coordinates, Z included, as many geometries in the same order,
\* each result tagged with its target CRS.
C8_ReprojectionRoundTrip ==
    (/\ op = "to_crs_3d"
     /\ args.df.crs \in {"cart", "geo"}
     /\ args.target \in {"cart", "geo"})
    => /\ ret.there.err = "none"
       /\ ret.there.val.crs = args.target
       /\ Len(ret.there.val.geoms) = Len(args.df.geoms)
       /\ \A i \in 1..Len(args.df.geoms) :
             /\ Len(ret.there.val.geoms[i]) = 1
             /\ ret.there.val.geoms[i][1] =
                  Transform(args.df.crs, args.target, args.df.geoms[i][1])
       /\ ret.back.err = "none"
       /\ ret.back.val.crs = args.df.crs
       /\ ret.back.val.geoms = args.df.geoms

\* C9: every row observe returns has an svid of a supported constellation,
\* and the constellation set handed to the satellite lookup, supplied or
\* inferred, is a subset of supported_constellations (the letters in it:
\* what a missing svid leaves in the set is C4's matter).
C9_OnlySupportedConstellations ==
    op = "observe"
    => /\ InLog("name_satellites")
            => (ret.used \ {str0(NaN)}) \subseteq supported_constellations
       /\ ret.err = "none" =>
            \A k \in 1..Len(ret.val.data) :
               /\ "svid" \in DOMAIN ret.val.data[k]
               /\ str0(ret.val.data[k].svid) \in supported_constellations

\* C10: observe runs its steps in a fixed order and an error at a step ends
\* the call there: no later step runs and nothing is returned.
ObserveOrder ==
    <<"check.receiverpoints", "check.constellations", "infer",
      "name_satellites", "locate_satellites", "to_crs_3d", "merge", "rays",
      "check.observations", "filter_elevation">>

C10_ObserveStopsAtFirstError ==
    op = "observe"
    => LET n == Min(Len(ret.log), Len(ObserveOrder))
       IN  /\ n >= 1
           /\ SubSeq(ret.log, 1, n) = SubSeq(ObserveOrder, 1, n)
           /\ ret.err # "none" => ret.val = "none"
           /\ ret.err = "none" => Len(ret.log) > Len(ObserveOrder)
           /\ ~args.env.receiverpoints_ok
                => ret.err = "receiverpoints" /\ Len(ret.log) = 1
           /\ (/\ args.env.receiverpoints_ok
               /\ ~(args.constellations \subseteq supported_constellations))
                => ret.err = "constellations" /\ Len(ret.log) = 2
           /\ ret.err = "inference" => Len(ret.log) = 3
           /\ (InLog("to_crs_3d") /\ args.points.crs = "none")
                => ret.err = "crs" /\ Len(ret.log) = 6
           /\ (InLog("merge") /\ "gps_time" \notin args.points.columns)
                => ret.err = "merge" /\ Len(ret.log) = 7
           /\ (InLog("check.observations") /\ ~args.env.observations_ok)
                => ret.err = "observations" /\ Len(ret.log) = 9

C10_Witness ==
    /\ op = "observe"
    /\ ~args.env.observations_ok
    /\ ret.err = "observations"
    /\ InLog("name_satellites")
    /\ ~InLog("filter_elevation")

====
